---- MODULE Spec2Model ----
(***************************************************************************)
(* Model of the clip_app conversion core:                                  *)
(*   - ClipSelector (modules/clip_selector.py): validation, greedy         *)
(*     de-duplication, score ranking, cap, and the retry loop;             *)
(*   - FaceTracker (modules/face_tracker.py): stable point of a clip;      *)
(*   - VideoProcessor.create_vertical_clip (modules/video_processor.py):   *)
(*     the crop rectangle;                                                 *)
(*   - SubtitleRenderer (modules/subtitle_renderer.py): the word window of *)
(*     a frame and the frame loop;                                         *)
(*   - main.py: the WebSocket connection list, send_progress, and          *)
(*     process_video with the re-basing of transcript words;               *)
(*   - timestamp helpers (utils/helpers.py).                               *)
(* Times are integers counted in ticks, TicksPerSec ticks to the second,   *)
(* so that timestamps with fractional seconds are exact.                   *)
(***************************************************************************)
EXTENDS Integers, Sequences, FiniteSets, TLC

VARIABLES
    target_clips,   \* ClipSelector.target_clips
    raw_clips,      \* the candidate records a caller holds (dicts, mutated in place)
    results,        \* what each call of _dedupe_and_limit_clips returned, in call order
    raised,         \* TRUE once an exception escaped a call
    pc,             \* position of select_clips: "idle", "loop", "save", "done"
    response,       \* what the last _call_llm produced ([] when it raised)
    attempt,        \* loop variable of select_clips
    best_clips,     \* select_clips local
    clips,          \* select_clips local: result of the current attempt
    calls,          \* number of _call_llm invocations made so far
    counts,         \* len(clips) of every attempt performed, in order
    llm_errors,     \* number of "Attempt n failed" lines logged
    returned,       \* the list select_clips returned
    frame_width,    \* track_faces_in_clip: width of the opened video
    frame_height,   \* track_faces_in_clip: height of the opened video
    end_frame,      \* number of frames of the clip (counted from start_frame)
    frame_count,    \* frames read so far (counted from start_frame)
    face_positions, \* samples collected so far
    tracking,       \* what track_faces_in_clip returned
    face_center,    \* what _calculate_face_center returned
    crop_args,      \* create_vertical_clip: face_x, face_y, source_width, source_height
    crop_params,    \* create_vertical_clip: the rectangle handed to cut_clip
    query,          \* _get_active_words: words, current_time, max_words
    window,         \* _get_active_words: (active_words, highlighted_index)
    render_args,    \* render_subtitles_for_clip: words, clip_duration, words_per_window
    rendered,       \* the frames rendered so far: time, active words, highlight
    rebase_args,    \* process_video, subtitle step: clip_info and transcript segments
    clip_words,     \* process_video, subtitle step: the words handed to the renderer
    active_connections, \* main.active_connections
    client,         \* state of each WebSocket client: "absent", "open", "closed"
    endpoint,       \* state of each websocket_endpoint coroutine
    remove_calls,   \* how often active_connections.remove(c) was executed, per c
    bpc,            \* position of send_progress: "idle", "iter", "sending"
    idx,            \* send_progress: index of the list iterator
    current,        \* send_progress: the connection being sent to
    disconnected,   \* send_progress local
    snapshot,       \* active_connections when the latest broadcast started
    attempted,      \* connections the latest broadcast called send_json on
    progress_raised, \* TRUE once a send_progress call ended by an exception
    job_pc,         \* position of process_video
    failed,         \* the operation whose exception reached the except clause
    clip_suggestions, \* process_video: number of clips select_clips returned
    generated_clips, \* process_video local
    http_response   \* what process_video answered

vars == <<target_clips, raw_clips, results, raised, pc, response, attempt,
          best_clips, clips, calls, counts, llm_errors, returned, frame_width,
          frame_height, end_frame, frame_count, face_positions, tracking,
          face_center, crop_args, crop_params, query, window, render_args,
          rendered, rebase_args, clip_words, active_connections, client,
          endpoint, remove_calls, bpc, idx, current, disconnected, snapshot,
          attempted, progress_raised, job_pc, failed, clip_suggestions,
          generated_clips, http_response>>

selectVars == <<pc, response, attempt, best_clips, clips, calls, counts,
                llm_errors, returned>>

selectorVars == <<target_clips, raw_clips, results, raised, selectVars>>

trackVars == <<frame_width, frame_height, end_frame, frame_count,
               face_positions, tracking>>

cropVars == <<crop_args, crop_params>>

subtitleVars == <<query, window>>

renderVars == <<render_args, rendered>>

rebaseVars == <<rebase_args, clip_words>>

connVars == <<active_connections, client, endpoint, remove_calls>>

castVars == <<bpc, idx, current, disconnected, snapshot, attempted,
              progress_raised>>

jobVars == <<job_pc, failed, clip_suggestions, generated_clips, http_response>>

serverVars == <<connVars, castVars, jobVars>>

laterVars == <<renderVars, rebaseVars, serverVars>>

stageVars == <<face_center, cropVars, subtitleVars, laterVars>>

----------------------------------------------------------------------------
(* Bounds of the model *)

TicksPerSec == 2
MaxCands == 3
MaxTarget == 2
MaxApply == 2
MaxBatch == 2
MaxFrames == 6
MaxPersons == 2
MaxSamples == 3
MaxSide == 10
MaxWords == 4
MaxWindow == 3
MaxRebase == 3
MaxConns == 2
MaxClips == 2

(* Program constants *)

min_duration == 15
max_duration == 60
max_attempts == 3
default_target_clips == 5
sample_rate == 5
overlap_buffer == 1
default_width == 3840
default_height == 2160

Sec(n) == n * TicksPerSec

----------------------------------------------------------------------------
(* Timestamp values as they appear in a candidate record.  kind is         *)
(*   "hms"  a string "H:M:S"      "ms"  a string "M:S"     "s" a string "S" *)
(*   "text" a non-empty string that is not a number                        *)
(*   "empty" the string ""        "none" key absent / None                 *)
(*   "num"  a number, not a string (s holds its value)                     *)
(* h and m are whole numbers, s is counted in ticks.                       *)

Ts(kind, h, m, s) == [kind |-> kind, h |-> h, m |-> m, s |-> s]

Ok(v) == [ok |-> TRUE, v |-> v]
Err == [ok |-> FALSE, v |-> 0]

\* utils.helpers.parse_timestamp: Err stands for the exception it raises
parse_timestamp(ts) ==
    CASE ts.kind = "hms" -> Ok((ts.h * 3600 + ts.m * 60) * TicksPerSec + ts.s)
      [] ts.kind = "ms"  -> Ok((ts.m * 60) * TicksPerSec + ts.s)
      [] ts.kind = "s"   -> Ok(ts.s)
      [] OTHER           -> Err

\* utils.helpers.format_timestamp: whole hours, minutes, seconds (floored)
format_timestamp(seconds) ==
    LET hours   == seconds \div (3600 * TicksPerSec)
        minutes == (seconds % (3600 * TicksPerSec)) \div (60 * TicksPerSec)
        secs    == (seconds % (60 * TicksPerSec)) \div TicksPerSec
    IN  Ts("hms", hours, minutes, Sec(secs))

\* Python truthiness of a start_time / end_time value: `not start_str`
Falsy(ts) ==
    \/ ts.kind \in {"none", "empty"}
    \/ ts.kind = "num" /\ ts.s = 0

\* int(round(duration)): round half to even, duration in ticks, result in seconds
RoundSeconds(duration) ==
    LET q == duration \div TicksPerSec
        r == duration % TicksPerSec
    IN  IF 2 * r < TicksPerSec THEN q
        ELSE IF 2 * r > TicksPerSec THEN q + 1
        ELSE IF q % 2 = 0 THEN q ELSE q + 1

\* all lists of at most n elements of S
Lists(S, n) == UNION { [1..k -> S] : k \in 0..n }

\* the one element of a singleton
Only(S) == CHOOSE x \in S : TRUE

Max(a, b) == IF a >= b THEN a ELSE b
Min(a, b) == IF a <= b THEN a ELSE b

----------------------------------------------------------------------------
(* ClipSelector._normalize_and_validate_clips *)

\* a duration that trusts the supplied duration_seconds when there is one
DurationSupplied(clip) ==
    IF clip.duration_seconds > 0 THEN Sec(clip.duration_seconds)
    ELSE Max(0, parse_timestamp(clip.end_time).v - parse_timestamp(clip.start_time).v)

\* duration = max(0.0, end_s - start_s), in ticks
Duration(clip) ==
    Max(0, parse_timestamp(clip.end_time).v - parse_timestamp(clip.start_time).v)

\* a range test that forgets the lower bound
InRangeNoMin(duration) ==
    ~(duration > Sec(max_duration))

\* the two range tests of the loop body
InRange(duration) ==
    ~(duration > Sec(max_duration) \/ duration < Sec(min_duration))

\* which branch of the loop body a candidate takes
Verdict(clip) ==
    IF Falsy(clip.start_time) \/ Falsy(clip.end_time) THEN "missing"
    ELSE IF ~parse_timestamp(clip.start_time).ok
            \/ ~parse_timestamp(clip.end_time).ok THEN "invalid"
    ELSE IF Duration(clip) <= 0 THEN "nonpositive"
    ELSE IF ~InRange(Duration(clip)) THEN "outofrange"
    ELSE "keep"

\* an update that also replaces an unusable score by 0
RewriteWithScore(clip) ==
    [clip EXCEPT
        !.start_time = format_timestamp(parse_timestamp(clip.start_time).v),
        !.end_time = format_timestamp(parse_timestamp(clip.end_time).v),
        !.duration_seconds = RoundSeconds(Duration(clip)),
        !.virality_score = IF @.kind = "num" THEN @ ELSE [kind |-> "num", v |-> 0]]

\* the in-place update of a kept candidate
Rewrite(clip) ==
    [clip EXCEPT
        !.start_time = format_timestamp(parse_timestamp(clip.start_time).v),
        !.end_time = format_timestamp(parse_timestamp(clip.end_time).v),
        !.duration_seconds = RoundSeconds(Duration(clip))]

\* the candidate records after the call: kept ones rewritten, dropped ones untouched
RecordsAfter(cs) ==
    [i \in DOMAIN cs |-> IF Verdict(cs[i]) = "keep" THEN Rewrite(cs[i]) ELSE cs[i]]

normalize_and_validate_clips(cs) ==
    SelectSeq(RecordsAfter(cs), LAMBDA c : Verdict(cs[c.id]) = "keep")

----------------------------------------------------------------------------
(* ClipSelector._dedupe_and_limit_clips *)

\* list.sort(key=...) is stable; order of the first n indices by ascending key
RECURSIVE StableAsc(_, _)
StableAsc(keys, n) ==
    IF n = 0 THEN <<>>
    ELSE LET prev == StableAsc(keys, n - 1)
         IN  SelectSeq(prev, LAMBDA j : keys[j] <= keys[n]) \o <<n>>
             \o SelectSeq(prev, LAMBDA j : keys[j] > keys[n])

\* list.sort(key=..., reverse=True): descending, equal keys keep their order
RECURSIVE StableDesc(_, _)
StableDesc(keys, n) ==
    IF n = 0 THEN <<>>
    ELSE LET prev == StableDesc(keys, n - 1)
         IN  SelectSeq(prev, LAMBDA j : keys[j] >= keys[n]) \o <<n>>
             \o SelectSeq(prev, LAMBDA j : keys[j] < keys[n])

\* ranking without reverse=True
RankOrderAscending(keys) == StableAsc(keys, Len(keys))

\* non_overlapping.sort(key=score, reverse=True)
RankOrder(keys) == StableDesc(keys, Len(keys))

\* normalized.sort(key=start_time_s)
StartOrder(keys) == StableAsc(keys, Len(keys))

Permute(s, order) == Only({ [k \in DOMAIN o |-> s[o[k]]] : o \in {order} })

start_time_s(c) == parse_timestamp(c.start_time)
end_time_s(c) == parse_timestamp(c.end_time)

\* an acceptance test with a 3 s buffer
AcceptsBuffer3(last_end, s) ==
    last_end < 0 \/ s >= last_end - Sec(3)

\* the acceptance test of the greedy pass
Accepts(last_end, s) ==
    last_end < 0 \/ s >= last_end - Sec(overlap_buffer)

RECURSIVE Greedy(_, _, _)
Greedy(sorted, i, last_end) ==
    IF i > Len(sorted) THEN <<>>
    ELSE IF Accepts(last_end, start_time_s(sorted[i]).v)
         THEN <<sorted[i]>> \o Greedy(sorted, i + 1, end_time_s(sorted[i]).v)
         ELSE Greedy(sorted, i + 1, last_end)

\* the score conversion without its try/except
scoreNoExcept(c) ==
    IF c.virality_score.kind = "num" THEN Ok(c.virality_score.v)
    ELSE IF c.virality_score.kind = "none" THEN Ok(0) ELSE Err

\* float(c.get("virality_score", 0) or 0) inside try/except
score(c) ==
    IF c.virality_score.kind = "num" THEN Ok(c.virality_score.v) ELSE Ok(0)

\* a slice that keeps one entry too many
CapOffByOne(s, n) == IF Len(s) > n THEN SubSeq(s, 1, n + 1) ELSE s

\* the final slice
Cap(s, n) == IF Len(s) > n THEN SubSeq(s, 1, n) ELSE s

\* normalized.sort(key=start_time_s)
SortByStart(normalized) ==
    Permute(normalized,
            StartOrder([k \in DOMAIN normalized |-> start_time_s(normalized[k]).v]))

\* non_overlapping.sort(key=score, reverse=True)
SortByScore(accepted) ==
    Permute(accepted,
            RankOrder([k \in DOMAIN accepted |-> score(accepted[k]).v]))

\* an exception escapes one of the two sort keys
Fails(normalized, accepted) ==
    \/ \E k \in DOMAIN normalized :
            ~start_time_s(normalized[k]).ok \/ ~end_time_s(normalized[k]).ok
    \/ \E k \in DOMAIN accepted : ~score(accepted[k]).ok

Outcome(cs, normalized, accepted, target) ==
    IF Fails(normalized, accepted)
    THEN [raised |-> TRUE, records |-> RecordsAfter(cs),
          accepted |-> <<>>, clips |-> <<>>]
    ELSE [raised |-> FALSE, records |-> RecordsAfter(cs),
          accepted |-> accepted, clips |-> Cap(SortByScore(accepted), target)]

\* each stage of the method is computed once and handed to the next
dedupe_and_limit_clips(cs, target) ==
    Only({ Only({ Only({ Outcome(cs, normalized, accepted, target) :
                           accepted \in {Greedy(sorted, 1, -Sec(1))} }) :
                    sorted \in {SortByStart(normalized)} }) :
             normalized \in {normalize_and_validate_clips(cs)} })

----------------------------------------------------------------------------
(* FaceTracker.track_faces_in_clip *)

NoTracking ==
    [done |-> FALSE, face_positions |-> <<>>, face_center_x |-> 0,
     face_center_y |-> 0, source_width |-> 0, source_height |-> 0]

NoResult == [done |-> FALSE]

Conns == 1..MaxConns

NoResponse == [status |-> 0, success |-> FALSE, clips |-> <<>>]

\* no request, no client and no subtitle rendering in progress
LaterIdle ==
    /\ render_args = NoResult /\ rendered = <<>>
    /\ rebase_args = NoResult /\ clip_words = NoResult
    /\ active_connections = <<>>
    /\ client = [c \in Conns |-> "absent"]
    /\ endpoint = [c \in Conns |-> "none"]
    /\ remove_calls = [c \in Conns |-> 0]
    /\ bpc = "idle" /\ idx = 0 /\ current = 0 /\ disconnected = <<>>
    /\ snapshot = <<>> /\ attempted = {} /\ progress_raised = FALSE
    /\ job_pc = "idle" /\ failed = "none" /\ clip_suggestions = 0
    /\ generated_clips = <<>> /\ http_response = NoResponse

\* no call of the later stages in progress
StagesIdle ==
    /\ face_center = NoResult
    /\ crop_args = NoResult /\ crop_params = NoResult
    /\ query = NoResult /\ window = NoResult
    /\ LaterIdle

\* no tracking call in progress
TrackerIdle ==
    /\ frame_width = 0 /\ frame_height = 0
    /\ end_frame = 0 /\ frame_count = 0
    /\ face_positions = <<>>
    /\ tracking = NoTracking

\* a fallback coordinate that is not halved
WholeDimension(dim) == dim

\* frame_width // 2 if frame_width > 0 else 0
FallbackCoord(dim) == IF dim > 0 THEN dim \div 2 ELSE 0

\* FaceTracker._get_fallback_center
get_fallback_center(width, height) ==
    [done |-> TRUE, face_positions |-> <<>>,
     face_center_x |-> FallbackCoord(width),
     face_center_y |-> FallbackCoord(height),
     source_width |-> width, source_height |-> height]

RECURSIVE SumSeq(_)
SumSeq(values) ==
    IF values = <<>> THEN 0 ELSE Head(values) + SumSeq(Tail(values))

\* int(x) of a quotient n / d with d > 0: truncation toward zero
IntDiv(n, d) == IF n >= 0 THEN n \div d ELSE -((-n) \div d)

\* int(np.mean(values)) in place of the median
MeanValue(values) == IntDiv(SumSeq(values), Len(values))

\* int(np.median(values)): middle of the sorted values, for an even count
\* the mean of the two middle ones, truncated toward zero
Median(values) ==
    LET n      == Len(values)
        sorted == Permute(values, StableAsc(values, n))
    IN  IF n % 2 = 1 THEN sorted[(n + 1) \div 2]
        ELSE IntDiv(sorted[n \div 2] + sorted[n \div 2 + 1], 2)

\* FaceTracker._calculate_face_center
calculate_face_center(positions) ==
    [face_center_x |-> Median([k \in DOMAIN positions |-> positions[k].center_x]),
     face_center_y |-> Median([k \in DOMAIN positions |-> positions[k].center_y])]

\* what the position-detection collaborator may report for one person:
\* confidence in tenths, the face point in pixels
Detections ==
    [conf : {5, 6}, center_x : {100, 10000}, center_y : {100, 300}]

FrameDetections == Lists(Detections, MaxPersons)

\* if confidence > 0.5
Confident(d) == d.conf > 5

\* the positions one sampled frame adds
RECURSIVE Sampled(_, _)
Sampled(dets, frame) ==
    IF dets = <<>> THEN <<>>
    ELSE (IF Confident(Head(dets))
          THEN <<[frame |-> frame, center_x |-> Head(dets).center_x,
                  center_y |-> Head(dets).center_y]>>
          ELSE <<>>) \o Sampled(Tail(dets), frame)

\* the dimensions cv2 reports (0 for a video it cannot open)
FrameWidths == {0, 1, 1280, 1920}
FrameHeights == {0, 1, 1080}

InitTrack ==
    /\ frame_width \in FrameWidths
    /\ frame_height \in FrameHeights
    /\ end_frame \in 0..MaxFrames
    /\ frame_count = 0
    /\ face_positions = <<>>
    /\ tracking = NoTracking
    /\ target_clips = 0 /\ raw_clips = <<>> /\ results = <<>> /\ raised = FALSE
    /\ pc = "idle" /\ attempt = 0 /\ best_clips = <<>> /\ clips = <<>>
    /\ calls = 0 /\ counts = <<>> /\ llm_errors = 0 /\ returned = <<>>
    /\ response = <<>>
    /\ StagesIdle

\* one pass of the frame loop on a frame that is not sampled
SkipFrame ==
    /\ ~tracking.done
    /\ frame_count < end_frame
    /\ frame_count % sample_rate # 0
    /\ frame_count' = frame_count + 1
    /\ UNCHANGED <<frame_width, frame_height, end_frame, face_positions,
                   tracking, selectorVars, stageVars>>

\* one pass of the frame loop on a sampled frame
SampleFrame ==
    /\ ~tracking.done
    /\ frame_count < end_frame
    /\ frame_count % sample_rate = 0
    /\ \E dets \in FrameDetections :
        face_positions' = face_positions \o Sampled(dets, frame_count)
    /\ frame_count' = frame_count + 1
    /\ UNCHANGED <<frame_width, frame_height, end_frame, tracking,
                   selectorVars, stageVars>>

\* after the loop: fallback when nothing was collected, else the median
TrackingResult ==
    IF face_positions = <<>>
    THEN get_fallback_center(frame_width, frame_height)
    ELSE LET stats == calculate_face_center(face_positions)
         IN  [done |-> TRUE, face_positions |-> face_positions,
              face_center_x |-> stats.face_center_x,
              face_center_y |-> stats.face_center_y,
              source_width |-> frame_width, source_height |-> frame_height]

\* the loop ends at end_frame
LoopEnds ==
    /\ ~tracking.done
    /\ frame_count >= end_frame
    /\ tracking' = TrackingResult
    /\ UNCHANGED <<frame_width, frame_height, end_frame, frame_count,
                   face_positions, selectorVars, stageVars>>

\* cap.read() fails before end_frame: break
ReadFails ==
    /\ ~tracking.done
    /\ frame_count < end_frame
    /\ tracking' = TrackingResult
    /\ UNCHANGED <<frame_width, frame_height, end_frame, frame_count,
                   face_positions, selectorVars, stageVars>>

NextTrack == SkipFrame \/ SampleFrame \/ LoopEnds \/ ReadFails

SpecTrack == InitTrack /\ [][NextTrack]_vars

----------------------------------------------------------------------------
(* FaceTracker._calculate_face_center on its own *)

\* the face points a sample list may hold
SamplePoints == [center_x : {-3, 0, 100, 10000}, center_y : {100, 300, 10000}]

SampleLists == Lists(SamplePoints, MaxSamples) \ {<<>>}

\* 9 samples clustered at (100,100), spread by at most j pixels, and one
\* outlier at (10000,10000) in position p
OutlierList(p, j) ==
    [k \in 1..10 |->
        IF k = p THEN [center_x |-> 10000, center_y |-> 10000]
        ELSE [center_x |-> 100 + ((k * j) % 3), center_y |-> 100 - ((k * j) % 2)]]

OutlierLists == { OutlierList(p, j) : p \in 1..10, j \in 0..2 }

InitCenter ==
    /\ face_positions \in SampleLists \cup OutlierLists
    /\ face_center = NoResult
    /\ frame_width = 0 /\ frame_height = 0 /\ end_frame = 0 /\ frame_count = 0
    /\ tracking = NoTracking
    /\ crop_args = NoResult /\ crop_params = NoResult
    /\ query = NoResult /\ window = NoResult
    /\ LaterIdle
    /\ target_clips = 0 /\ raw_clips = <<>> /\ results = <<>> /\ raised = FALSE
    /\ pc = "idle" /\ attempt = 0 /\ best_clips = <<>> /\ clips = <<>>
    /\ calls = 0 /\ counts = <<>> /\ llm_errors = 0 /\ returned = <<>>
    /\ response = <<>>

CalculateFaceCenter ==
    /\ ~face_center.done
    /\ \E c \in {calculate_face_center(face_positions)} :
        face_center' = [done |-> TRUE, face_center_x |-> c.face_center_x,
                        face_center_y |-> c.face_center_y]
    /\ UNCHANGED <<trackVars, cropVars, subtitleVars, selectorVars, laterVars>>

SpecCenter == InitCenter /\ [][CalculateFaceCenter]_vars

----------------------------------------------------------------------------
(* VideoProcessor.create_vertical_clip: the crop rectangle *)

\* a guard that replaces only the dimension that is not positive
GuardEach(w, h) ==
    [source_width  |-> IF w <= 0 THEN default_width ELSE w,
     source_height |-> IF h <= 0 THEN default_height ELSE h]

\* if source_width <= 0 or source_height <= 0: both become the 4K defaults
Guard(w, h) ==
    IF w <= 0 \/ h <= 0
    THEN [source_width |-> default_width, source_height |-> default_height]
    ELSE [source_width |-> w, source_height |-> h]

\* a size that always keeps the full source height
CropSizeFullHeight(w, h) == [width |-> (h * 9) \div 16, height |-> h]

\* crop_height = source_height; crop_width = int(crop_height * 9 / 16);
\* when that is wider than the source: full width, height int(width / (9 / 16))
CropSize(w, h) ==
    IF (h * 9) \div 16 > w
    THEN [width |-> w, height |-> (w * 16) \div 9]
    ELSE [width |-> (h * 9) \div 16, height |-> h]

\* a clamp that forgets the upper limit
ClampLow(v, room) == Max(0, v)

\* max(0, min(v, room))
Clamp(v, room) == Max(0, Min(v, room))

\* a half that rounds up
HalfCeil(n) == (n + 1) \div 2

\* half_w = crop_width // 2; half_h = crop_height // 2
Half(n) == n \div 2

\* a corner on the wrong side of the face point
OriginPlus(face, half) == face + half

\* int(face_x - half_w), int(face_y - half_h): the corner before clamping
Origin(face, half) == face - half

\* the crop_params of create_vertical_clip
crop_rectangle(face_x, face_y, source_width, source_height) ==
    LET src  == Guard(source_width, source_height)
        size == CropSize(src.source_width, src.source_height)
    IN  [x      |-> Clamp(Origin(face_x, Half(size.width)),
                          src.source_width - size.width),
         y      |-> Clamp(Origin(face_y, Half(size.height)),
                          src.source_height - size.height),
         width  |-> size.width,
         height |-> size.height]

\* source sizes: every small one, missing metadata (0, -1), common videos
SourceSizes ==
    ((-1..MaxSide) \X (-1..MaxSide))
        \cup {<<1920, 1080>>, <<1080, 1920>>, <<3840, 2160>>, <<1920, 0>>}

\* face points: inside and outside of every source size
FaceCoords == (-2..(MaxSide + 2)) \cup {607, 608, 960, 3232, 3233, 5000}

InitCrop ==
    /\ \E size \in SourceSizes, fx \in FaceCoords, fy \in FaceCoords :
        crop_args = [done |-> TRUE, face_x |-> fx, face_y |-> fy,
                     source_width |-> size[1], source_height |-> size[2]]
    /\ crop_params = NoResult
    /\ face_center = NoResult /\ query = NoResult /\ window = NoResult
    /\ LaterIdle
    /\ TrackerIdle
    /\ target_clips = 0 /\ raw_clips = <<>> /\ results = <<>> /\ raised = FALSE
    /\ pc = "idle" /\ attempt = 0 /\ best_clips = <<>> /\ clips = <<>>
    /\ calls = 0 /\ counts = <<>> /\ llm_errors = 0 /\ returned = <<>>
    /\ response = <<>>

\* create_vertical_clip up to the call of cut_clip
CreateVerticalClip ==
    /\ ~crop_params.done
    /\ \E r \in {crop_rectangle(crop_args.face_x, crop_args.face_y,
                                 crop_args.source_width, crop_args.source_height)} :
        crop_params' = [done |-> TRUE, x |-> r.x, y |-> r.y,
                        width |-> r.width, height |-> r.height]
    /\ UNCHANGED <<crop_args, face_center, subtitleVars, trackVars, selectorVars,
                   laterVars>>

SpecCrop == InitCrop /\ [][CreateVerticalClip]_vars

----------------------------------------------------------------------------
(* SubtitleRenderer._get_active_words                                        *)
(* Word times and query times are integers counted in half seconds; indices  *)
(* count from 0 as in the code.                                              *)

\* an interval test that includes the end time
ContainsClosed(word, t) == word.start <= t /\ t <= word.end

\* if word['start'] <= current_time < word['end']
Contains(word, t) == word.start <= t /\ t < word.end

\* a loop without its break: the last word that contains current_time
last_word_idx(words, t) ==
    IF \E i \in DOMAIN words : Contains(words[i], t)
    THEN [found |-> TRUE,
          idx   |-> (CHOOSE i \in DOMAIN words :
                        /\ Contains(words[i], t)
                        /\ \A j \in (i + 1)..Len(words) : ~Contains(words[j], t)) - 1]
    ELSE [found |-> FALSE, idx |-> -1]

\* the for loop with its break: the first word that contains current_time
current_word_idx(words, t) ==
    IF \E i \in DOMAIN words : Contains(words[i], t)
    THEN [found |-> TRUE,
          idx   |-> (CHOOSE i \in DOMAIN words :
                        /\ Contains(words[i], t)
                        /\ \A j \in 1..(i - 1) : ~Contains(words[j], t)) - 1]
    ELSE [found |-> FALSE, idx |-> -1]

\* start_idx = max(0, current_word_idx - max_words // 2)
FirstStart(cur, max_words) == Max(0, cur - max_words \div 2)

\* end_idx = min(len(words), start_idx + max_words)
WindowEnd(n, start_idx, max_words) == Min(n, start_idx + max_words)

\* a window start that is not moved back at the end of the words
NoShift(start_idx, end_idx, max_words) == start_idx

\* if end_idx - start_idx < max_words: start_idx = max(0, end_idx - max_words)
Shift(start_idx, end_idx, max_words) ==
    IF end_idx - start_idx < max_words THEN Max(0, end_idx - max_words)
    ELSE start_idx

\* a highlight computed from the window start before it was moved
HighlightUnshifted(cur, first_start, start_idx) == cur - first_start

\* highlighted_index = current_word_idx - start_idx
Highlight(cur, first_start, start_idx) == cur - start_idx

\* words[start_idx:end_idx] for 0 <= start_idx <= end_idx <= len(words)
Slice(words, start_idx, end_idx) == SubSeq(words, start_idx + 1, end_idx)

get_active_words(words, current_time, max_words) ==
    LET cur == current_word_idx(words, current_time)
    IN  IF ~cur.found THEN [active_words |-> <<>>, highlighted_index |-> -1]
        ELSE LET first_start == FirstStart(cur.idx, max_words)
                 end_idx     == WindowEnd(Len(words), first_start, max_words)
                 start_idx   == Shift(first_start, end_idx, max_words)
             IN  [active_words      |-> Slice(words, start_idx, end_idx),
                  highlighted_index |-> Highlight(cur.idx, first_start, start_idx)]

\* how a word follows the one before it: the silence before it (-1, -2: it
\* starts before the previous one has ended) and its length
WordShapes ==
    { [gap |-> 0, dur |-> 1], [gap |-> 0, dur |-> 2], [gap |-> 1, dur |-> 1],
      [gap |-> -1, dur |-> 2], [gap |-> 0, dur |-> 0], [gap |-> -2, dur |-> 1] }

RECURSIVE BuildWords(_, _, _)
BuildWords(shapes, t0, k) ==
    IF shapes = <<>> THEN <<>>
    ELSE LET from == Max(0, t0 + Head(shapes).gap)
         IN  <<[text |-> k, start |-> from, end |-> from + Head(shapes).dur]>>
                \o BuildWords(Tail(shapes), from + Head(shapes).dur, k + 1)

WordLists == { BuildWords(sh, 0, 1) : sh \in Lists(WordShapes, MaxWords) }

\* 20 words of 0.5 s, one after the other
TwentyWords == [k \in 1..20 |-> [text |-> k, start |-> k - 1, end |-> k]]

Queries ==
    [done : {TRUE}, words : WordLists, current_time : 0..(2 * MaxWords + 1),
     max_words : 0..MaxWindow]
        \cup [done : {TRUE}, words : {TwentyWords}, current_time : 0..21,
              max_words : {5}]

InitWindow ==
    /\ query \in Queries
    /\ window = NoResult
    /\ face_center = NoResult /\ crop_args = NoResult /\ crop_params = NoResult
    /\ LaterIdle
    /\ TrackerIdle
    /\ target_clips = 0 /\ raw_clips = <<>> /\ results = <<>> /\ raised = FALSE
    /\ pc = "idle" /\ attempt = 0 /\ best_clips = <<>> /\ clips = <<>>
    /\ calls = 0 /\ counts = <<>> /\ llm_errors = 0 /\ returned = <<>>
    /\ response = <<>>

GetActiveWords ==
    /\ ~window.done
    /\ \E r \in {get_active_words(query.words, query.current_time,
                                   query.max_words)} :
        window' = [done |-> TRUE, active_words |-> r.active_words,
                   highlighted_index |-> r.highlighted_index]
    /\ UNCHANGED <<query, face_center, cropVars, trackVars, selectorVars,
                   laterVars>>

SpecWindow == InitWindow /\ [][GetActiveWords]_vars

----------------------------------------------------------------------------
(* Candidate records as the suggestion collaborator may return them *)

Num(v) == [kind |-> "num", v |-> v]
NoScore == [kind |-> "none", v |-> 0]
TextScore == [kind |-> "text", v |-> 0]

Hms(h, m, s) == Ts("hms", h, m, s)
None == Ts("none", 0, 0, 0)

Cand(st, en, sc, title) ==
    [id |-> 0, start_time |-> st, end_time |-> en, duration_seconds |-> 0,
     virality_score |-> sc, title |-> title, reason |-> <<"why", title>>]


\* candidates that pass validation (durations 15 .. 45 s): some with
\* fractional seconds, one lying before time zero, some without a usable score
ValidCands ==
    { Cand(Hms(0, 0, 0), Hms(0, 0, Sec(15)), Num(2), "a"),
      Cand(Hms(0, 0, 0), Hms(0, 0, Sec(15) + 1), TextScore, "b"),
      Cand(Hms(0, 0, Sec(14) + 1), Hms(0, 0, Sec(30)), Num(1), "c"),
      Cand(Hms(0, 0, Sec(14) + 1), Hms(0, 0, Sec(30)), Num(3), "c3"),
      Cand(Ts("ms", 0, 0, Sec(30)), Ts("ms", 0, 1, Sec(15)), Num(2), "d"),
      Cand(Ts("s", 0, 0, -Sec(30)), Ts("s", 0, 0, -Sec(10)), NoScore, "e") }

\* candidates the validation drops: missing, unparsable, numeric, reversed,
\* too long, too short
BadCands ==
    { Cand(None, Ts("empty", 0, 0, 0), Num(3), "m1"),
      Cand(Ts("num", 0, 0, 0), Hms(0, 0, Sec(15)), Num(3), "m2"),
      Cand(Ts("text", 0, 0, 0), Hms(0, 0, Sec(15)), Num(3), "i1"),
      Cand(Hms(0, 0, 0), Ts("num", 0, 0, Sec(30)), Num(3), "i2"),
      Cand(Hms(0, 0, Sec(30)), Hms(0, 0, Sec(15)), Num(3), "n1"),
      Cand(Ts("s", 0, 0, 0), Ts("s", 0, 0, Sec(75)), Num(3), "o1"),
      Cand(Hms(0, 0, Sec(15)), Hms(0, 0, Sec(29) + 1), Num(3), "o2") }

Pool == ValidCands \cup BadCands

\* object identity: the i-th record of a list is object i
WithIds(s) == [i \in DOMAIN s |-> [s[i] EXCEPT !.id = i]]

Batches == { WithIds(s) : s \in Lists(Pool, MaxCands) }

----------------------------------------------------------------------------
(* Calling _dedupe_and_limit_clips on records the caller keeps *)

InitDedupe ==
    /\ target_clips \in 0..MaxTarget
    /\ raw_clips \in Batches
    /\ results = <<>>
    /\ raised = FALSE
    /\ pc = "idle" /\ attempt = 0 /\ best_clips = <<>> /\ clips = <<>>
    /\ calls = 0 /\ counts = <<>> /\ llm_errors = 0 /\ returned = <<>>
    /\ response = <<>>
    /\ TrackerIdle
    /\ StagesIdle

Dedupe ==
    /\ Len(results) < MaxApply
    /\ ~raised
    /\ \E r \in {dedupe_and_limit_clips(raw_clips, target_clips)} :
           /\ raw_clips' = r.records
           /\ raised' = r.raised
           /\ results' = Append(results,
                  [input |-> raw_clips, accepted |-> r.accepted, clips |-> r.clips])
    /\ UNCHANGED <<target_clips, selectVars, trackVars, stageVars>>

NextDedupe == Dedupe

SpecDedupe == InitDedupe /\ [][NextDedupe]_vars

----------------------------------------------------------------------------
(* ClipSelector.select_clips *)

\* what the suggestion collaborator may answer on one attempt
LLMPool ==
    { c \in Pool : c.title \in {"a", "b", "c", "m1"} }

LLMBatches == { WithIds(s) : s \in Lists(LLMPool, MaxBatch) }

\* a loop that keeps the latest result instead of the best
KeepLatest(best, cur) == cur

\* if len(clips) > len(best_clips): best_clips = clips
KeepBest(best, cur) == IF Len(cur) > Len(best) THEN cur ELSE best

\* a break test that wants more than the target
TargetExceeded(best, target) == Len(best) > target

\* if len(best_clips) >= self.target_clips: break
TargetReached(best, target) == Len(best) >= target

InitSelect ==
    /\ target_clips \in 0..MaxTarget
    /\ raw_clips = <<>>
    /\ results = <<>>
    /\ raised = FALSE
    /\ pc = "idle" /\ attempt = 0 /\ best_clips = <<>> /\ clips = <<>>
    /\ calls = 0 /\ counts = <<>> /\ llm_errors = 0 /\ returned = <<>>
    /\ response = <<>>
    /\ TrackerIdle
    /\ StagesIdle

\* entry of select_clips: best_clips = [], the attempt loop starts
SelectClips ==
    /\ pc = "idle"
    /\ pc' = "loop"
    /\ attempt' = 1
    /\ best_clips' = <<>>
    /\ UNCHANGED <<target_clips, raw_clips, results, raised, response, clips,
                   calls, counts, llm_errors, returned, trackVars, stageVars>>

\* one pass of the loop body once _call_llm has ended with raw: process the
\* batch, keep the best, break or go on to the next attempt
AttemptBody(raw) ==
    /\ response' = raw
    /\ \E r \in {dedupe_and_limit_clips(raw, target_clips)} :
        LET best == KeepBest(best_clips, r.clips)
        IN  /\ calls' = calls + 1
            /\ raw_clips' = r.records
            /\ results' = <<[input |-> raw, accepted |-> r.accepted,
                             clips |-> r.clips]>>
            /\ raised' = r.raised
            /\ IF r.raised
               THEN /\ pc' = "done"
                    /\ UNCHANGED <<attempt, best_clips, clips, counts>>
               ELSE /\ clips' = r.clips
                    /\ counts' = Append(counts, Len(r.clips))
                    /\ best_clips' = best
                    /\ IF TargetReached(best, target_clips)
                          \/ attempt = max_attempts
                       THEN pc' = "save" /\ attempt' = attempt
                       ELSE pc' = "loop" /\ attempt' = attempt + 1
            /\ UNCHANGED <<target_clips, returned, trackVars, stageVars>>

\* an attempt whose _call_llm returns a batch of candidates
LLMReturns ==
    /\ pc = "loop"
    /\ \E raw \in LLMBatches : AttemptBody(raw)
    /\ UNCHANGED llm_errors

\* an attempt whose exception is logged and then leaves select_clips
LLMRaisesPropagates ==
    /\ pc = "loop"
    /\ llm_errors' = llm_errors + 1
    /\ calls' = calls + 1
    /\ response' = <<>>
    /\ raised' = TRUE
    /\ pc' = "done"
    /\ UNCHANGED <<target_clips, raw_clips, results, attempt, best_clips,
                   clips, counts, returned, trackVars, stageVars>>

\* an attempt whose _call_llm raises: the error is logged and raw_clips = []
LLMRaises ==
    /\ pc = "loop"
    /\ AttemptBody(<<>>)
    /\ llm_errors' = llm_errors + 1

\* a return of the last attempt's clips
SaveAndReturnLatest ==
    /\ pc = "save"
    /\ returned' = clips
    /\ pc' = "done"
    /\ UNCHANGED <<target_clips, raw_clips, results, raised, response,
                   attempt, best_clips, clips, calls, counts, llm_errors,
                   trackVars, stageVars>>

\* the suggestions file is written and best_clips returned
SaveAndReturn ==
    /\ pc = "save"
    /\ returned' = best_clips
    /\ pc' = "done"
    /\ UNCHANGED <<target_clips, raw_clips, results, raised, response,
                   attempt, best_clips, clips, calls, counts, llm_errors,
                   trackVars, stageVars>>

NextSelect ==
    SelectClips \/ LLMReturns \/ LLMRaises \/ SaveAndReturn

SpecSelect == InitSelect /\ [][NextSelect]_vars

\* the event loop resumes the coroutine, and every _call_llm ends within
\* its 60 s client timeout, by a response or by an exception
FairSpecSelect == SpecSelect /\ WF_vars(NextSelect)

----------------------------------------------------------------------------
(* The end-to-end scenario: 8 candidates of 15 s over a 120 s transcript,    *)
(* scores 9 .. 2 in list order, two disjoint neighbouring pairs overlapping  *)
(* by 3 s, the default target of 5 clips                                     *)

ScenarioScores == <<9, 8, 7, 6, 5, 4, 3, 2>>

ScenarioOffsets == 0..(120 - (Len(ScenarioScores) * min_duration - 2 * 3))

\* positions p < q of the first member of each overlapping pair
ScenarioPairs ==
    { pq \in (1..(Len(ScenarioScores) - 1)) \X (1..(Len(ScenarioScores) - 1)) :
        pq[1] + 2 <= pq[2] }

\* start (in seconds) of the k-th candidate in time order
RECURSIVE ScenarioStart(_, _, _)
ScenarioStart(k, pq, off) ==
    IF k = 1 THEN off
    ELSE ScenarioStart(k - 1, pq, off) + min_duration
            - (IF k - 1 \in {pq[1], pq[2]} THEN 3 ELSE 0)

HmsOf(t) == Hms(t \div 3600, (t % 3600) \div 60, Sec(t % 60))

\* the candidate list, in time order or in reverse time order
ScenarioList(pq, off, rev) ==
    [i \in 1..Len(ScenarioScores) |->
        LET k == IF rev THEN Len(ScenarioScores) + 1 - i ELSE i
            t == ScenarioStart(k, pq, off)
        IN  Cand(HmsOf(t), HmsOf(t + min_duration), Num(ScenarioScores[i]), "s")]

InitScenario ==
    /\ target_clips = default_target_clips
    /\ \E pq \in ScenarioPairs, off \in ScenarioOffsets, rev \in BOOLEAN :
        raw_clips = WithIds(ScenarioList(pq, off, rev))
    /\ results = <<>>
    /\ raised = FALSE
    /\ pc = "idle" /\ attempt = 0 /\ best_clips = <<>> /\ clips = <<>>
    /\ calls = 0 /\ counts = <<>> /\ llm_errors = 0 /\ returned = <<>>
    /\ response = <<>>
    /\ TrackerIdle
    /\ StagesIdle

SpecScenario == InitScenario /\ [][NextDedupe]_vars

----------------------------------------------------------------------------
(* Candidates that come with a duration_seconds of their own *)

\* the candidate with the duration_seconds its author supplied
Supplied(c, d) == [c EXCEPT !.duration_seconds = d]

\* no value (0), a value inside the allowed range, a value far outside it
SuppliedDurations == {0, 20, 999}

\* a 15 s, a 15.5 s and a 75 s candidate, each with every supplied duration
SuppliedPool ==
    { Supplied(c, d) : c \in { k \in Pool : k.title \in {"a", "b", "o1"} },
                       d \in SuppliedDurations }

InitSupplied ==
    /\ target_clips \in 1..MaxTarget
    /\ raw_clips \in { WithIds(s) : s \in Lists(SuppliedPool, MaxCands) }
    /\ results = <<>>
    /\ raised = FALSE
    /\ pc = "idle" /\ attempt = 0 /\ best_clips = <<>> /\ clips = <<>>
    /\ calls = 0 /\ counts = <<>> /\ llm_errors = 0 /\ returned = <<>>
    /\ response = <<>>
    /\ TrackerIdle
    /\ StagesIdle

SpecSupplied == InitSupplied /\ [][NextDedupe]_vars

----------------------------------------------------------------------------
(* SubtitleRenderer.render_subtitles_for_clip: the frame loop                *)
(* Times are counted in half seconds and fps is 2: one frame per unit.      *)

\* fps, in frames per unit of time
FramesPerTick == 1

InitRender ==
    /\ render_args \in [done : {TRUE}, words : WordLists,
                         clip_duration : {2, 2 * MaxWords + 1},
                         max_words : 0..MaxWindow]
    /\ rendered = <<>>
    /\ rebase_args = NoResult /\ clip_words = NoResult
    /\ active_connections = <<>>
    /\ client = [c \in Conns |-> "absent"]
    /\ endpoint = [c \in Conns |-> "none"]
    /\ remove_calls = [c \in Conns |-> 0]
    /\ bpc = "idle" /\ idx = 0 /\ current = 0 /\ disconnected = <<>>
    /\ snapshot = <<>> /\ attempted = {} /\ progress_raised = FALSE
    /\ job_pc = "idle" /\ failed = "none" /\ clip_suggestions = 0
    /\ generated_clips = <<>> /\ http_response = NoResponse
    /\ face_center = NoResult
    /\ crop_args = NoResult /\ crop_params = NoResult
    /\ query = NoResult /\ window = NoResult
    /\ TrackerIdle
    /\ target_clips = 0 /\ raw_clips = <<>> /\ results = <<>> /\ raised = FALSE
    /\ pc = "idle" /\ attempt = 0 /\ best_clips = <<>> /\ clips = <<>>
    /\ calls = 0 /\ counts = <<>> /\ llm_errors = 0 /\ returned = <<>>
    /\ response = <<>>

\* one pass of the frame loop over range(int(clip_duration * fps)):
\* current_time = frame_num / fps, then _render_frame asks
\* _get_active_words for the window of that time
RenderFrame ==
    /\ render_args.done
    /\ Len(rendered) < render_args.clip_duration * FramesPerTick
    /\ \E t \in {Len(rendered) \div FramesPerTick} :
         \E r \in {get_active_words(render_args.words, t,
                                      render_args.max_words)} :
            rendered' = Append(rendered,
                               [current_time      |-> t,
                                active_words      |-> r.active_words,
                                highlighted_index |-> r.highlighted_index])
    /\ UNCHANGED <<render_args, rebaseVars, serverVars, face_center, cropVars,
                   subtitleVars, trackVars, selectorVars>>

SpecRender == InitRender /\ [][RenderFrame]_vars

----------------------------------------------------------------------------
(* process_video, subtitle step: the words of one clip, re-based             *)

\* an overlap test that includes words touching the clip
OverlapsClosed(word, clip_start, clip_end) ==
    word.end >= clip_start /\ word.start <= clip_end

\* if word_end > clip_start and word_start < clip_end
Overlaps(word, clip_start, clip_end) ==
    word.end > clip_start /\ word.start < clip_end

\* the dict appended to clip_words
Rebased(word, clip_start, clip_duration) ==
    [text_roman |-> word.text,
     start      |-> Max(0, word.start - clip_start),
     end        |-> Min(clip_duration, word.end - clip_start)]

\* the inner loop over the words of one segment
RECURSIVE SegmentWords(_, _, _)
SegmentWords(words, clip_start, clip_end) ==
    IF words = <<>> THEN <<>>
    ELSE (IF Overlaps(Head(words), clip_start, clip_end)
          THEN <<Rebased(Head(words), clip_start, clip_end - clip_start)>>
          ELSE <<>>)
            \o SegmentWords(Tail(words), clip_start, clip_end)

\* the loop over the segments: a segment without 'words' is passed over
RECURSIVE ClipWords(_, _, _)
ClipWords(segments, clip_start, clip_end) ==
    IF segments = <<>> THEN <<>>
    ELSE (IF Head(segments).has_words
          THEN SegmentWords(Head(segments).words, clip_start, clip_end)
          ELSE <<>>)
            \o ClipWords(Tail(segments), clip_start, clip_end)

\* transcript words, with times around the two ends of a clip from 0:15 to
\* 0:30: proper ones (start < end) and words of no length
TranscriptWords ==
    { w \in [start : {Sec(15) - 1, Sec(15), Sec(15) + 1,
                      Sec(30) - 1, Sec(30), Sec(30) + 1},
             end   : {Sec(15) - 1, Sec(15), Sec(15) + 1,
                      Sec(30) - 1, Sec(30), Sec(30) + 1}] : w.start <= w.end }

Numbered(ws) == [k \in DOMAIN ws |-> [text |-> k, start |-> ws[k].start,
                                         end |-> ws[k].end]]

\* the first word in a segment of its own, a segment without words, then
\* the other words in one segment
Segmented(ws) ==
    <<[has_words |-> TRUE, words |-> SubSeq(ws, 1, Min(1, Len(ws)))],
      [has_words |-> FALSE, words |-> <<>>],
      [has_words |-> TRUE, words |-> SubSeq(ws, 2, Len(ws))]>>

\* clip_info start_time / end_time as create_vertical_clip's caller stored them
ClipInfos ==
    { [start_time |-> Hms(0, 0, Sec(15)), end_time |-> Hms(0, 0, Sec(30))],
      [start_time |-> Hms(0, 0, Sec(15)), end_time |-> Hms(0, 1, Sec(15))] }

InitRebase ==
    /\ \E ws \in Lists(TranscriptWords, MaxRebase), info \in ClipInfos :
        rebase_args = [done |-> TRUE, clip_info |-> info,
                       segments |-> Segmented(Numbered(ws))]
    /\ clip_words = NoResult
    /\ render_args = NoResult /\ rendered = <<>>
    /\ active_connections = <<>>
    /\ client = [c \in Conns |-> "absent"]
    /\ endpoint = [c \in Conns |-> "none"]
    /\ remove_calls = [c \in Conns |-> 0]
    /\ bpc = "idle" /\ idx = 0 /\ current = 0 /\ disconnected = <<>>
    /\ snapshot = <<>> /\ attempted = {} /\ progress_raised = FALSE
    /\ job_pc = "idle" /\ failed = "none" /\ clip_suggestions = 0
    /\ generated_clips = <<>> /\ http_response = NoResponse
    /\ face_center = NoResult
    /\ crop_args = NoResult /\ crop_params = NoResult
    /\ query = NoResult /\ window = NoResult
    /\ TrackerIdle
    /\ target_clips = 0 /\ raw_clips = <<>> /\ results = <<>> /\ raised = FALSE
    /\ pc = "idle" /\ attempt = 0 /\ best_clips = <<>> /\ clips = <<>>
    /\ calls = 0 /\ counts = <<>> /\ llm_errors = 0 /\ returned = <<>>
    /\ response = <<>>

\* clip_start, clip_end, clip_duration, then the extraction loop
ExtractClipWords ==
    /\ rebase_args.done /\ ~clip_words.done
    /\ \E clip_start \in {parse_timestamp(rebase_args.clip_info.start_time).v},
          clip_end \in {parse_timestamp(rebase_args.clip_info.end_time).v} :
        clip_words' = [done |-> TRUE,
                       clip_duration |-> clip_end - clip_start,
                       words |-> ClipWords(rebase_args.segments, clip_start,
                                           clip_end)]
    /\ UNCHANGED <<rebase_args, renderVars, serverVars, face_center, cropVars,
                   subtitleVars, trackVars, selectorVars>>

SpecRebase == InitRebase /\ [][ExtractClipWords]_vars

----------------------------------------------------------------------------
(* main.py: websocket_endpoint, send_progress and process_video             *)
(* One request is in flight.  Coroutines interleave at their awaits: the    *)
(* code between two awaits of a coroutine is one step.                      *)

\* the fields of config.Settings
SettingsFields ==
    {"runpod_api_key", "runpod_endpoint", "openrouter_api_key", "llm_model",
     "max_video_size_mb", "min_clip_duration", "max_clip_duration",
     "target_clips", "base_dir", "uploads_dir", "outputs_dir", "static_dir"}

\* list.remove(c) for a c that is in the list
RemoveFrom(list, c) ==
    LET k == CHOOSE i \in DOMAIN list :
                 list[i] = c /\ \A j \in 1..(i - 1) : list[j] # c
    IN  SubSeq(list, 1, k - 1) \o SubSeq(list, k + 1, Len(list))

\* for conn in disconnected: active_connections.remove(conn); a remove of
\* a connection that is not in the list raises ValueError and ends the loop
RECURSIVE RemoveAll(_, _, _)
RemoveAll(list, gone, count) ==
    IF gone = <<>> THEN [list |-> list, calls |-> count, raised |-> FALSE]
    ELSE LET c      == Head(gone)
             called == [count EXCEPT ![c] = @ + 1]
         IN  IF \E i \in DOMAIN list : list[i] = c
             THEN RemoveAll(RemoveFrom(list, c), Tail(gone), called)
             ELSE [list |-> list, calls |-> called, raised |-> TRUE]

\* the positions of process_video at which send_progress is awaited
ProgressPoints ==
    {"upload_active", "upload_complete", "extract_active", "extract_complete",
     "transcribe_active", "transcribe_complete", "analyze_active",
     "analyze_complete", "track_active", "generate_active",
     "generate_complete", "error"}

\* where process_video goes on when the send_progress call returns
AfterProgress(at) ==
    CASE at = "upload_active"       -> "upload"
      [] at = "upload_complete"     -> "extract_active"
      [] at = "extract_active"      -> "extract"
      [] at = "extract_complete"    -> "transcribe_active"
      [] at = "transcribe_active"   -> "transcribe"
      [] at = "transcribe_complete" -> "analyze_active"
      [] at = "analyze_active"      -> "analyze"
      [] at = "analyze_complete"    -> "track_active"
      [] at = "track_active"        -> "track"
      [] at = "generate_active"     -> "generate"
      [] at = "generate_complete"   -> "subtitles"
      [] at = "error"               -> "respond_error"

ErrorResponse == [status |-> 500, success |-> FALSE, clips |-> <<>>]

InitServer ==
    /\ active_connections = <<>>
    /\ client = [c \in Conns |-> "absent"]
    /\ endpoint = [c \in Conns |-> "none"]
    /\ remove_calls = [c \in Conns |-> 0]
    /\ bpc = "idle" /\ idx = 0 /\ current = 0 /\ disconnected = <<>>
    /\ snapshot = <<>> /\ attempted = {} /\ progress_raised = FALSE
    /\ job_pc = "idle" /\ failed = "none" /\ clip_suggestions = 0
    /\ generated_clips = <<>> /\ http_response = NoResponse
    /\ render_args = NoResult /\ rendered = <<>>
    /\ rebase_args = NoResult /\ clip_words = NoResult
    /\ face_center = NoResult
    /\ crop_args = NoResult /\ crop_params = NoResult
    /\ query = NoResult /\ window = NoResult
    /\ TrackerIdle
    /\ target_clips = 0 /\ raw_clips = <<>> /\ results = <<>> /\ raised = FALSE
    /\ pc = "idle" /\ attempt = 0 /\ best_clips = <<>> /\ clips = <<>>
    /\ calls = 0 /\ counts = <<>> /\ llm_errors = 0 /\ returned = <<>>
    /\ response = <<>>

\* what no action of the server touches
offServer == <<renderVars, rebaseVars, face_center, cropVars, subtitleVars,
               trackVars, selectorVars>>

\* websocket_endpoint up to its first receive_text: accept, then append
Connect(c) ==
    /\ client[c] = "absent"
    /\ client' = [client EXCEPT ![c] = "open"]
    /\ endpoint' = [endpoint EXCEPT ![c] = "receiving"]
    /\ active_connections' = Append(active_connections, c)
    /\ UNCHANGED <<remove_calls, castVars, jobVars, offServer>>

\* the client goes away
ClientCloses(c) ==
    /\ client[c] = "open"
    /\ client' = [client EXCEPT ![c] = "closed"]
    /\ UNCHANGED <<active_connections, endpoint, remove_calls, castVars,
                   jobVars, offServer>>

\* receive_text raises WebSocketDisconnect: active_connections.remove(websocket),
\* which raises ValueError when the connection is no longer in the list
EndpointDisconnect(c) ==
    /\ endpoint[c] = "receiving" /\ client[c] = "closed"
    /\ remove_calls' = [remove_calls EXCEPT ![c] = @ + 1]
    /\ IF \E i \in DOMAIN active_connections : active_connections[i] = c
       THEN /\ active_connections' = RemoveFrom(active_connections, c)
            /\ endpoint' = [endpoint EXCEPT ![c] = "returned"]
       ELSE /\ endpoint' = [endpoint EXCEPT ![c] = "raised"]
            /\ UNCHANGED active_connections
    /\ UNCHANGED <<client, castVars, jobVars, offServer>>

\* the request arrives; process_video runs up to its first send_progress
StartRequest ==
    /\ job_pc = "idle"
    /\ job_pc' = "upload_active"
    /\ UNCHANGED <<failed, clip_suggestions, generated_clips, http_response,
                   connVars, castVars, offServer>>

\* entry of send_progress: disconnected = [], the for loop starts
SendProgress ==
    /\ job_pc \in ProgressPoints /\ bpc = "idle"
    /\ bpc' = "iter"
    /\ idx' = 0
    /\ disconnected' = <<>>
    /\ snapshot' = active_connections
    /\ attempted' = {}
    /\ UNCHANGED <<current, progress_raised, connVars, jobVars, offServer>>

\* the list iterator yields the next connection and send_json is awaited
NextConnection ==
    /\ bpc = "iter" /\ idx < Len(active_connections)
    /\ current' = active_connections[idx + 1]
    /\ idx' = idx + 1
    /\ attempted' = attempted \cup {active_connections[idx + 1]}
    /\ bpc' = "sending"
    /\ UNCHANGED <<disconnected, snapshot, progress_raised, connVars, jobVars,
                   offServer>>

\* send_json ends: it returns, or, when the client has gone away, it may
\* raise, and the connection is noted in disconnected
SendReturns ==
    /\ bpc = "sending"
    /\ \E raises \in {FALSE, client[current] = "closed"} :
        disconnected' = IF raises THEN Append(disconnected, current)
                        ELSE disconnected
    /\ bpc' = "iter"
    /\ UNCHANGED <<idx, current, snapshot, attempted, progress_raised,
                   connVars, jobVars, offServer>>

\* the exception of an operation inside the try block reaches the except
\* clause, which awaits send_progress("error", ...)
Raise(step) ==
    /\ failed' = IF failed = "none" THEN step ELSE failed
    /\ job_pc' = "error"
    /\ UNCHANGED <<clip_suggestions, generated_clips, http_response>>

\* the for loop is exhausted, the disconnected clients are removed and
\* send_progress returns to process_video, or raises into it
FinishProgress ==
    /\ bpc = "iter" /\ idx >= Len(active_connections)
    /\ bpc' = "idle"
    /\ \E r \in {RemoveAll(active_connections, disconnected, remove_calls)} :
        /\ active_connections' = r.list
        /\ remove_calls' = r.calls
        /\ progress_raised' = (progress_raised \/ r.raised)
        /\ IF ~r.raised
           THEN /\ job_pc' = AfterProgress(job_pc)
                /\ UNCHANGED <<failed, clip_suggestions, generated_clips,
                               http_response>>
           ELSE IF job_pc = "error"
           THEN /\ job_pc' = "done"
                /\ http_response' = ErrorResponse
                /\ UNCHANGED <<failed, clip_suggestions, generated_clips>>
           ELSE Raise("send_progress")
    /\ UNCHANGED <<client, endpoint, idx, current, disconnected, snapshot,
                   attempted, offServer>>

\* create_job_folder, the copy of the upload, get_video_info
Upload ==
    /\ job_pc = "upload"
    /\ \E ok \in BOOLEAN :
        IF ok THEN /\ job_pc' = "upload_complete"
                   /\ UNCHANGED <<failed, clip_suggestions, generated_clips,
                                  http_response>>
        ELSE Raise("upload")
    /\ UNCHANGED <<connVars, castVars, offServer>>

\* processor.extract_audio
ExtractAudio ==
    /\ job_pc = "extract"
    /\ \E ok \in BOOLEAN :
        IF ok THEN /\ job_pc' = "extract_complete"
                   /\ UNCHANGED <<failed, clip_suggestions, generated_clips,
                                  http_response>>
        ELSE Raise("extract")
    /\ UNCHANGED <<connVars, castVars, offServer>>

\* transcriber.transcribe
Transcribe ==
    /\ job_pc = "transcribe"
    /\ \E ok \in BOOLEAN :
        IF ok THEN /\ job_pc' = "transcribe_complete"
                   /\ UNCHANGED <<failed, clip_suggestions, generated_clips,
                                  http_response>>
        ELSE Raise("transcribe")
    /\ UNCHANGED <<connVars, castVars, offServer>>

\* selector.select_clips: it raises, or returns n clips; no clip is an
\* HTTPException
AnalyzeClips ==
    /\ job_pc = "analyze"
    /\ \E ok \in BOOLEAN, n \in 0..MaxClips :
        IF ok /\ n > 0
        THEN /\ job_pc' = "analyze_complete"
             /\ clip_suggestions' = n
             /\ generated_clips' = <<>>
             /\ UNCHANGED <<failed, http_response>>
        ELSE Raise("analyze")
    /\ UNCHANGED <<connVars, castVars, offServer>>

\* tracker.track_faces_in_clip for the clip at hand
TrackFaces ==
    /\ job_pc = "track"
    /\ \E ok \in BOOLEAN :
        IF ok THEN /\ job_pc' = "generate_active"
                   /\ UNCHANGED <<failed, clip_suggestions, generated_clips,
                                  http_response>>
        ELSE Raise("track")
    /\ UNCHANGED <<connVars, castVars, offServer>>

\* processor.create_vertical_clip, generated_clips.append, next clip
GenerateClip ==
    /\ job_pc = "generate"
    /\ \E ok \in BOOLEAN :
        IF ok
        THEN /\ generated_clips' = Append(generated_clips,
                                          Len(generated_clips) + 1)
             /\ job_pc' = IF Len(generated_clips) + 1 < clip_suggestions
                          THEN "track_active" ELSE "generate_complete"
             /\ UNCHANGED <<failed, clip_suggestions, http_response>>
        ELSE Raise("generate")
    /\ UNCHANGED <<connVars, castVars, offServer>>

\* `if settings.enable_subtitles:` and what follows it: the attribute is a
\* value for a field of Settings and an AttributeError otherwise.  The subtitle
\* step keeps its own exceptions, so with the setting the results summary
\* is written and the success response returned
AddSubtitles ==
    /\ job_pc = "subtitles"
    /\ IF "enable_subtitles" \in SettingsFields
       THEN /\ http_response' = [status |-> 200, success |-> TRUE,
                                 clips |-> generated_clips]
            /\ job_pc' = "done"
            /\ UNCHANGED <<failed, clip_suggestions, generated_clips>>
       ELSE Raise("settings")
    /\ UNCHANGED <<connVars, castVars, offServer>>

\* the end of the except clause: the 500 response
RespondError ==
    /\ job_pc = "respond_error"
    /\ http_response' = ErrorResponse
    /\ job_pc' = "done"
    /\ UNCHANGED <<failed, clip_suggestions, generated_clips, connVars,
                   castVars, offServer>>

NextServer ==
    \/ \E c \in Conns : Connect(c)
    \/ \E c \in Conns : ClientCloses(c)
    \/ \E c \in Conns : EndpointDisconnect(c)
    \/ StartRequest
    \/ SendProgress
    \/ NextConnection
    \/ SendReturns
    \/ FinishProgress
    \/ Upload
    \/ ExtractAudio
    \/ Transcribe
    \/ AnalyzeClips
    \/ TrackFaces
    \/ GenerateClip
    \/ AddSubtitles
    \/ RespondError

SpecServer == InitServer /\ [][NextServer]_vars

----------------------------------------------------------------------------
(* Properties of _dedupe_and_limit_clips and select_clips *)

StartOf(c) == parse_timestamp(c.start_time).v
EndOf(c) == parse_timestamp(c.end_time).v

Parses(ts) == ts.kind \in {"hms", "ms", "s"}

\* duration of a candidate as supplied, from its own timestamps, in ticks
OwnDuration(c) == EndOf(c) - StartOf(c)

OutsideRange(c) ==
    /\ Parses(c.start_time) /\ Parses(c.end_time)
    /\ (OwnDuration(c) < Sec(min_duration) \/ OwnDuration(c) > Sec(max_duration))

Ids(s) == { s[k].id : k \in DOMAIN s }

\* C1: any two distinct returned clips i, j with i.start <= j.start satisfy
\* i.end - 1 s <= j.start, on the returned start_time / end_time
C1_NonOverlap ==
    \A k \in DOMAIN results :
        \A i, j \in DOMAIN results[k].clips :
            LET ci == results[k].clips[i]
                cj == results[k].clips[j]
            IN  (i # j /\ StartOf(ci) <= StartOf(cj))
                    => EndOf(ci) - Sec(overlap_buffer) <= StartOf(cj)

\* C2: every returned clip comes from a candidate whose own duration lies in
\* [min_duration, max_duration]; a candidate outside the range is not
\* returned and its record is left as it was (nothing is clamped)
C2_DurationBounds ==
    \A k \in DOMAIN results :
        LET r == results[k]
            after == IF k < Len(results) THEN results[k + 1].input ELSE raw_clips
        IN  /\ \A n \in DOMAIN r.clips :
                LET orig == r.input[r.clips[n].id]
                IN  /\ Parses(orig.start_time) /\ Parses(orig.end_time)
                    /\ Sec(min_duration) <= OwnDuration(orig)
                    /\ OwnDuration(orig) <= Sec(max_duration)
            /\ \A i \in DOMAIN r.input :
                OutsideRange(r.input[i])
                    => /\ i \notin Ids(r.clips)
                       /\ after[i] = r.input[i]

C2_Witness ==
    \E k \in DOMAIN results :
        /\ Len(results[k].clips) >= 1
        /\ \E i, j \in DOMAIN results[k].input :
            /\ OutsideRange(results[k].input[i])
            /\ OwnDuration(results[k].input[i]) < Sec(min_duration)
            /\ OutsideRange(results[k].input[j])
            /\ OwnDuration(results[k].input[j]) > Sec(max_duration)

\* C3: what _dedupe_and_limit_clips returns on an attempt, the best result
\* kept by select_clips and the list it returns never exceed target_clips
C3_Cap ==
    /\ Len(clips) <= target_clips
    /\ Len(best_clips) <= target_clips
    /\ Len(returned) <= target_clips
    /\ \A k \in DOMAIN results : Len(results[k].clips) <= target_clips

C3_Witness ==
    /\ pc = "done"
    /\ target_clips >= 1
    /\ Len(returned) = target_clips
    /\ Len(results) = 1 /\ Len(results[1].accepted) > target_clips

\* C4: a second call on the same candidate records returns what the first
\* call returned
C4_Idempotent ==
    Len(results) >= 2 => results[2].clips = results[1].clips

\* C5: select_clips terminates after 1 to 3 calls of the collaborator and
\* makes no call once an attempt has ended with the target reached
C5_Terminates ==
    /\ <>(pc = "done")
    /\ [](calls <= max_attempts)
    /\ [](pc = "done" => calls >= 1)
    /\ [][(calls' # calls /\ calls >= 1)
            => Len(best_clips) < target_clips]_vars

C5_Witness ==
    /\ pc = "done"
    /\ calls = 2
    /\ Len(returned) >= target_clips

RECURSIVE MaxOf(_)
MaxOf(s) == IF Len(s) = 0 THEN 0 ELSE Max(Head(s), MaxOf(Tail(s)))

\* C6: the returned list has as many clips as the best attempt produced
C6_BestCount ==
    (pc = "done" /\ ~raised) => Len(returned) = MaxOf(counts)

C6_Witness ==
    /\ pc = "done"
    /\ Len(counts) = max_attempts
    /\ counts[1] < counts[2]
    /\ counts[3] < counts[2]
    /\ Len(returned) = counts[2]

\* bad data in a candidate: timestamps missing, not a timestamp string, or
\* giving a non-positive or out-of-range duration
BadData(c) ==
    \/ ~Parses(c.start_time)
    \/ ~Parses(c.end_time)
    \/ OwnDuration(c) <= 0
    \/ OutsideRange(c)

\* C7: no call raises, whatever the candidates; when every candidate is
\* bad the result is empty, and a candidate whose only defect is its score
\* is still eligible
C7_NeverRaises ==
    /\ ~raised
    /\ \A k \in DOMAIN results :
        /\ (\A i \in DOMAIN results[k].input : BadData(results[k].input[i]))
                => results[k].clips = <<>>
        /\ (target_clips >= 1 /\ Len(results[k].input) = 1
                /\ ~BadData(results[k].input[1]))
                => Len(results[k].clips) = 1

C7_Witness ==
    /\ ~raised
    /\ \E k \in DOMAIN results :
        LET in == results[k].input
        IN  /\ Len(in) = 3
            /\ in[1].start_time.kind = "none"
            /\ in[2].start_time.kind = "text"
            /\ in[3].end_time.kind = "num"
            /\ results[k].clips = <<>>

ScoreValue(c) == IF c.virality_score.kind = "num" THEN c.virality_score.v ELSE 0

PosIn(s, c) == CHOOSE p \in DOMAIN s : s[p].id = c.id

\* C8: the result is the accepted set ordered by score descending, equal
\* scores in start order, cut to target_clips; nothing left out scores
\* higher than something returned
C8_RankAndCap ==
    \A k \in DOMAIN results :
        LET acc == results[k].accepted
            out == results[k].clips
        IN  /\ Len(out) = Min(target_clips, Len(acc))
            /\ Ids(out) \subseteq Ids(acc)
            /\ \A a, b \in DOMAIN out : a # b => out[a].id # out[b].id
            /\ \A a \in DOMAIN out : out[a] = acc[PosIn(acc, out[a])]
            /\ \A a, b \in DOMAIN out :
                a < b => /\ ScoreValue(out[a]) >= ScoreValue(out[b])
                         /\ ScoreValue(out[a]) = ScoreValue(out[b])
                                => PosIn(acc, out[a]) < PosIn(acc, out[b])
            /\ \A p \in DOMAIN acc : \A a \in DOMAIN out :
                acc[p].id \notin Ids(out)
                    => ScoreValue(acc[p]) <= ScoreValue(out[a])

C8_Witness ==
    \E k \in DOMAIN results :
        LET acc == results[k].accepted
            out == results[k].clips
        IN  /\ Len(acc) = 3
            /\ Len(out) = 2
            /\ out # SubSeq(acc, 1, 2)
            /\ ScoreValue(out[1]) = ScoreValue(out[2])

\* pairs of candidates of a list that overlap, earlier one first
OverlapPairs(in) ==
    { ij \in (DOMAIN in) \X (DOMAIN in) :
        /\ StartOf(in[ij[1]]) < StartOf(in[ij[2]])
        /\ StartOf(in[ij[2]]) < EndOf(in[ij[1]]) }

\* C9: in the scenario exactly one member of each overlapping pair survives
\* the greedy pass, 6 candidates survive, and the 5 returned are the 5
\* highest-scoring survivors
C9_Scenario ==
    \A k \in DOMAIN results :
        LET in  == results[k].input
            acc == results[k].accepted
            out == results[k].clips
        IN  /\ Cardinality(OverlapPairs(in)) = 2
            /\ \A ij \in OverlapPairs(in) :
                /\ EndOf(in[ij[1]]) - StartOf(in[ij[2]]) = Sec(3)
                /\ (ij[1] \in Ids(acc)) # (ij[2] \in Ids(acc))
            /\ Len(acc) = Len(ScenarioScores) - 2
            /\ Len(out) = default_target_clips
            /\ Cardinality(Ids(out)) = default_target_clips
            /\ Ids(out) \subseteq Ids(acc)
            /\ \A p \in DOMAIN acc : \A a \in DOMAIN out :
                acc[p].id \notin Ids(out)
                    => ScoreValue(acc[p]) < ScoreValue(out[a])

C9_Witness ==
    /\ target_clips = default_target_clips
    /\ \E k \in DOMAIN results :
        /\ Len(results[k].input) = Len(ScenarioScores)
        /\ Len(results[k].clips) = default_target_clips
        /\ 1 \notin Ids(results[k].clips)

\* C10: with no sample collected the stable point is the frame centre,
\* each dimension halved to an integer, (960, 540) for 1920 x 1080, and the
\* returned sample list is empty
C10_FallbackCenter ==
    (tracking.done /\ face_positions = <<>>)
        => /\ 2 * tracking.face_center_x \in {frame_width - 1, frame_width}
           /\ 2 * tracking.face_center_y \in {frame_height - 1, frame_height}
           /\ tracking.face_positions = <<>>
           /\ (frame_width = 1920 /\ frame_height = 1080)
                => (tracking.face_center_x = 960 /\ tracking.face_center_y = 540)

C10_Witness ==
    /\ tracking.done
    /\ face_positions = <<>>
    /\ frame_count >= 1
    /\ frame_width = 1920 /\ frame_height = 1080
    /\ tracking.face_center_x = 960 /\ tracking.face_center_y = 540

----------------------------------------------------------------------------
(* C11 *)

XsOf(positions) == [k \in DOMAIN positions |-> positions[k].center_x]
YsOf(positions) == [k \in DOMAIN positions |-> positions[k].center_y]

\* x is the k-th smallest of values
IsOrderStat(values, k, x) ==
    /\ \E i \in DOMAIN values : values[i] = x
    /\ Cardinality({ i \in DOMAIN values : values[i] < x }) < k
    /\ Cardinality({ i \in DOMAIN values : values[i] <= x }) >= k

\* m is half of s, truncated toward zero
IsTruncatedHalf(s, m) ==
    IF s >= 0 THEN 2 * m <= s /\ s < 2 * m + 2
    ELSE 2 * m - 2 < s /\ s <= 2 * m

IsMedian(values, m) ==
    LET n == Len(values)
    IN  IF n % 2 = 1 THEN IsOrderStat(values, (n + 1) \div 2, m)
        ELSE \E i, j \in DOMAIN values :
                /\ IsOrderStat(values, n \div 2, values[i])
                /\ IsOrderStat(values, n \div 2 + 1, values[j])
                /\ IsTruncatedHalf(values[i] + values[j], m)

Near(a, b, d) == a - b <= d /\ b - a <= d

\* C11: for a non-empty sample list _calculate_face_center returns on each
\* axis the median of that axis' coordinates (for an even count the midpoint
\* of the two middle values, truncated); 9 samples at (100,100) and one
\* outlier at (10000,10000) give a point within 3 pixels of (100,100)
C11_Median ==
    face_center.done =>
        /\ IsMedian(XsOf(face_positions), face_center.face_center_x)
        /\ IsMedian(YsOf(face_positions), face_center.face_center_y)
        /\ face_positions \in OutlierLists =>
                /\ Near(face_center.face_center_x, 100, 3)
                /\ Near(face_center.face_center_y, 100, 3)

\* the outlier case has been computed, and the mean is far from the result
C11_Witness ==
    /\ face_center.done
    /\ face_positions \in OutlierLists
    /\ face_center.face_center_x = 100
    /\ MeanValue(XsOf(face_positions)) > 1000

----------------------------------------------------------------------------
(* C12 *)

Abs(n) == IF n >= 0 THEN n ELSE -n

PositiveSource == crop_args.source_width > 0 /\ crop_args.source_height > 0

\* C12: for any stable point, inside or outside the frame, and any positive
\* source dimensions, the crop rectangle lies inside the source frame and
\* its width/height is 9/16 up to integer truncation
C12_CropInsideFrame ==
    (crop_params.done /\ PositiveSource) =>
        /\ 0 <= crop_params.x
        /\ crop_params.x + crop_params.width <= crop_args.source_width
        /\ 0 <= crop_params.y
        /\ crop_params.y + crop_params.height <= crop_args.source_height
        /\ Abs(16 * crop_params.width - 9 * crop_params.height) < 16

\* a tall source and a face point right of the frame: the width limits the
\* crop and the rectangle is pushed back against the right and lower edges
C12_Witness ==
    /\ crop_params.done /\ PositiveSource
    /\ crop_args.face_x > crop_args.source_width
    /\ crop_args.face_y > crop_args.source_height
    /\ crop_params.width = crop_args.source_width
    /\ crop_params.height < crop_args.source_height
    /\ crop_params.y > 0
    /\ crop_params.y + crop_params.height = crop_args.source_height

----------------------------------------------------------------------------
(* C13 *)

MissingSource == crop_args.source_width <= 0 \/ crop_args.source_height <= 0

----------------------------------------------------------------------------
(* C14 *)

\* the positions (from 1) of the words whose [start, end) holds the query time
Speaking ==
    { i \in DOMAIN query.words :
        query.words[i].start <= query.current_time
        /\ query.current_time < query.words[i].end }

\* C14: for a query time in no word's [start, end) interval (in a gap, before
\* the first word, after the last, or exactly at a word's end when the next
\* word starts later) _get_active_words returns no words and index -1
C14_EmptyInGap ==
    (window.done /\ Speaking = {}) =>
        window.active_words = <<>> /\ window.highlighted_index = -1

\* the query time is the end time of a word and the next word starts later
C14_Witness ==
    /\ window.done /\ Speaking = {} /\ query.max_words >= 1
    /\ \E i \in DOMAIN query.words :
        /\ i < Len(query.words)
        /\ query.words[i].start < query.words[i].end
        /\ query.words[i].end = query.current_time
        /\ query.words[i + 1].start > query.current_time
    /\ window.active_words = <<>>

----------------------------------------------------------------------------
(* C15 *)

Located == window.done /\ Speaking # {} /\ query.max_words >= 1

\* C15: when the query time is inside some word and max_words >= 1, the
\* visible window is a contiguous slice of the words of exactly
\* min(max_words, len(words)) words; with 20 words of 0.5 s and max_words 5
\* a query inside word 0 or inside word 19 gives 5 words
C15_FullWindow ==
    Located =>
        LET n == Min(query.max_words, Len(query.words))
        IN  /\ Len(window.active_words) = n
            /\ \E a \in 0..(Len(query.words) - n) :
                    window.active_words = SubSeq(query.words, a + 1, a + n)
            /\ (query.words = TwentyWords /\ query.current_time \in {0, 19})
                    => Len(window.active_words) = 5

\* the query is inside the last of the 20 words: the window is words 15 .. 19
C15_Witness ==
    /\ Located
    /\ query.words = TwentyWords /\ query.current_time = 19
    /\ Len(window.active_words) = 5
    /\ window.active_words[1].text = 16
    /\ window.active_words[5].text = 20

----------------------------------------------------------------------------
(* C16 *)

\* the position (from 1) of the first word that holds the query time
FirstSpeaking == CHOOSE i \in Speaking : \A j \in Speaking : i <= j

\* C16: when a word is located and max_words >= 1, highlighted_index h
\* satisfies 0 <= h < len(visible) and visible[h] is the first word whose
\* [start, end) contains the query time, also after the window start has
\* been moved left at the tail
C16_HighlightInWindow ==
    Located =>
        /\ 0 <= window.highlighted_index
        /\ window.highlighted_index < Len(window.active_words)
        /\ window.active_words[window.highlighted_index + 1]
                = query.words[FirstSpeaking]

\* the located word is the last one, more words exist than the window holds,
\* and the window start has been moved left: the highlight is the last slot
C16_Witness ==
    /\ Located
    /\ Len(query.words) > query.max_words
    /\ FirstSpeaking = Len(query.words)
    /\ window.highlighted_index = query.max_words - 1
    /\ window.highlighted_index > query.max_words \div 2
    /\ window.active_words[query.max_words] = query.words[Len(query.words)]

----------------------------------------------------------------------------
(* C17 *)

TimeFields == {"start_time", "end_time", "duration_seconds"}

\* C17: every clip returned by _dedupe_and_limit_clips has all its fields
\* other than start_time, end_time and duration_seconds (title, reason,
\* virality_score, ...) identical to those of the input candidate it came from
C17_MetadataUnchanged ==
    \A k \in DOMAIN results :
        \A p \in DOMAIN results[k].clips :
            LET c == results[k].clips[p]
                o == results[k].input[c.id]
            IN  /\ DOMAIN c = DOMAIN o
                /\ \A f \in (DOMAIN c) \ TimeFields : c[f] = o[f]

\* a returned clip whose end_time and duration_seconds were rewritten and
\* whose score is not a number
C17_Witness ==
    \E k \in DOMAIN results :
        \E p \in DOMAIN results[k].clips :
            LET c == results[k].clips[p]
                o == results[k].input[c.id]
            IN  /\ c.end_time # o.end_time
                /\ c.duration_seconds # o.duration_seconds
                /\ c.virality_score.kind = "text"
                /\ c.reason = o.reason /\ c.title = o.title

----------------------------------------------------------------------------
(* C18 *)

\* the same candidate list with every duration_seconds replaced by d
WithDurations(cs, d) == [i \in DOMAIN cs |-> Supplied(cs[i], d)]

\* C18: which candidates are kept, their order and their duration_seconds
\* depend only on start_time and end_time: every candidate list gives the
\* selection, with the duration_seconds, that the same list without any
\* supplied duration_seconds gives, so two lists that differ only in the
\* supplied values give the same
C18_SuppliedDurationIgnored ==
    results # <<>> =>
        dedupe_and_limit_clips(WithDurations(results[Len(results)].input, 0),
                               target_clips).clips
            = results[Len(results)].clips

\* a kept 15.5 s clip whose supplied duration was 999, next to a dropped
\* 75 s candidate whose supplied duration was inside the allowed range
C18_Witness ==
    /\ Len(results) = 1
    /\ \E p \in DOMAIN results[1].clips :
        LET c == results[1].clips[p]
        IN  /\ results[1].input[c.id].duration_seconds = 999
            /\ c.duration_seconds = 16
    /\ \E i \in DOMAIN results[1].input :
        /\ results[1].input[i].duration_seconds = 20
        /\ OwnDuration(results[1].input[i]) > Sec(max_duration)
        /\ i \notin Ids(results[1].clips)

----------------------------------------------------------------------------
(* C19 *)

\* the last call: its input, the records as the call left them, and the
\* clips the greedy pass accepted, in the order it accepted them
LastInput == results[Len(results)].input
LastAccepted == results[Len(results)].accepted

ValidIds == { i \in DOMAIN LastInput : ~BadData(LastInput[i]) }

\* i is walked before j: ascending start, equal starts in input order
WalkedBefore(i, j) ==
    \/ StartOf(raw_clips[i]) < StartOf(raw_clips[j])
    \/ StartOf(raw_clips[i]) = StartOf(raw_clips[j]) /\ i < j

\* the accepted candidates walked before v
AcceptedBefore(v) == { a \in Ids(LastAccepted) : WalkedBefore(a, v) }

\* the most recently accepted candidate when v is reached
LastAcceptedBefore(v) ==
    CHOOSE a \in AcceptedBefore(v) :
        \A b \in AcceptedBefore(v) : b = a \/ WalkedBefore(b, a)

\* C19: the greedy pass walks the valid candidates in ascending start order
\* (equal starts in input order), always accepts the first, and accepts each
\* later one exactly when its start >= (end of the most recently accepted
\* one) - 1 s, whatever the scores
C19_GreedyRule ==
    results # <<>> =>
        /\ Ids(LastAccepted) \subseteq ValidIds
        /\ \A p, q \in DOMAIN LastAccepted :
                p < q => WalkedBefore(LastAccepted[p].id, LastAccepted[q].id)
        /\ \A v \in ValidIds :
                IF AcceptedBefore(v) = {}
                THEN v \in Ids(LastAccepted) <=>
                        (\A u \in ValidIds \ {v} : WalkedBefore(v, u))
                ELSE v \in Ids(LastAccepted) <=>
                        StartOf(raw_clips[v])
                            >= EndOf(raw_clips[LastAcceptedBefore(v)])
                                - Sec(overlap_buffer)

----------------------------------------------------------------------------
(* C20 *)

\* the step is an attempt whose _call_llm raised
FailedAttempt == llm_errors' = llm_errors + 1

\* what every failed attempt does: nothing is propagated, the attempt counts
\* as an empty batch, the best result of earlier attempts is kept
AsEmptyBatch ==
    /\ ~raised'
    /\ clips' = <<>>
    /\ counts' = Append(counts, 0)
    /\ best_clips' = best_clips

\* when all 3 attempts failed the result is the empty list
AllFailedGivesEmpty ==
    (pc = "done" /\ llm_errors = max_attempts) => returned = <<>>

\* C20 as stated: a failed attempt is treated as an empty batch, and the
\* next attempt is made if the 3-attempt budget is not used up
C20_NextAttemptWithinBudget ==
    /\ [][FailedAttempt =>
            /\ AsEmptyBatch
            /\ attempt < max_attempts => (pc' = "loop" /\ attempt' = attempt + 1)
         ]_vars
    /\ []AllFailedGivesEmpty

\* C20 amended: a failed attempt is treated as an empty batch, and the next
\* attempt is made if the 3-attempt budget is not used up and the best
\* result so far is still below target_clips; otherwise the loop ends with
\* the best result, which is the empty list when all 3 attempts failed
C20_FailedAttemptIsEmptyBatch ==
    /\ [][FailedAttempt =>
            /\ AsEmptyBatch
            /\ IF attempt < max_attempts /\ Len(best_clips) < target_clips
               THEN pc' = "loop" /\ attempt' = attempt + 1
               ELSE pc' = "save" /\ attempt' = attempt
         ]_vars
    /\ []AllFailedGivesEmpty

\* the first attempt gave one clip of the two wanted, the second and the
\* third failed, and the one clip was returned
C20_Witness ==
    /\ pc = "done" /\ ~raised
    /\ target_clips = 2
    /\ calls = 3 /\ llm_errors = 2
    /\ counts = <<1, 0, 0>>
    /\ Len(returned) = 1

----------------------------------------------------------------------------
(* C21 *)

\* the frame the crop is computed for: the source, or 3840x2160 when a
\* dimension is missing
FrameWidth ==
    IF crop_args.source_width > 0 /\ crop_args.source_height > 0
    THEN crop_args.source_width ELSE 3840

FrameHeight ==
    IF crop_args.source_width > 0 /\ crop_args.source_height > 0
    THEN crop_args.source_height ELSE 2160

FullHeightFits == (9 * FrameHeight) \div 16 <= FrameWidth

\* C21: the crop has the source height and the width floor(height * 9 / 16)
\* when that width fits in the source width, otherwise the source width and
\* the height floor(width * 16 / 9); one crop dimension always equals the
\* source dimension
C21_LargestNineSixteen ==
    crop_params.done =>
        /\ FullHeightFits =>
                /\ crop_params.height = FrameHeight
                /\ crop_params.width = (9 * FrameHeight) \div 16
        /\ ~FullHeightFits =>
                /\ crop_params.width = FrameWidth
                /\ crop_params.height = (16 * FrameWidth) \div 9
        /\ \/ crop_params.width = FrameWidth
           \/ crop_params.height = FrameHeight

\* a source narrower than 9:16: the width limits the crop, and the height
\* is smaller than the source height
C21_Witness ==
    /\ crop_params.done /\ PositiveSource
    /\ ~FullHeightFits
    /\ crop_params.width = crop_args.source_width
    /\ crop_params.height < crop_args.source_height
    /\ crop_params.height > crop_params.width

----------------------------------------------------------------------------
(* C22 *)

CentredLeft == crop_args.face_x - crop_params.width \div 2

CentredTop == crop_args.face_y - crop_params.height \div 2

RoomX == FrameWidth - crop_params.width

RoomY == FrameHeight - crop_params.height

\* v when it lies in 0..room, else the end of 0..room nearest to v
Nearest(v, room) == IF v < 0 THEN 0 ELSE IF v > room THEN room ELSE v

\* C22: the corner is the centred corner point - floor(size / 2) clamped to
\* [0, source - size] on each axis: unchanged when the centred rectangle
\* fits, otherwise moved by the smallest shift that puts it inside (no
\* position inside a real source frame is nearer to the centred corner)
C22_ClampedCorner ==
    crop_params.done =>
        /\ crop_params.x = Nearest(CentredLeft, RoomX)
        /\ crop_params.y = Nearest(CentredTop, RoomY)
        /\ PositiveSource =>
                /\ \A x \in 0..RoomX :
                        Abs(crop_params.x - CentredLeft) <= Abs(x - CentredLeft)
                /\ \A y \in 0..RoomY :
                        Abs(crop_params.y - CentredTop) <= Abs(y - CentredTop)

\* an odd crop width with the centred rectangle inside the frame on x, and
\* a face point above the frame on y
C22_Witness ==
    /\ crop_params.done /\ PositiveSource
    /\ crop_params.width % 2 = 1
    /\ crop_params.x = CentredLeft
    /\ crop_params.x > 0 /\ crop_params.x < RoomX
    /\ CentredTop < 0 /\ crop_params.y = 0

----------------------------------------------------------------------------
(* C26 *)

FaceInFrame ==
    /\ PositiveSource
    /\ 0 <= crop_args.face_x /\ crop_args.face_x <= crop_args.source_width
    /\ 0 <= crop_args.face_y /\ crop_args.face_y <= crop_args.source_height

\* C26: a stable point inside the source frame lies inside the crop
\* rectangle
C26_FaceInsideCrop ==
    (crop_params.done /\ FaceInFrame) =>
        /\ crop_params.x <= crop_args.face_x
        /\ crop_args.face_x <= crop_params.x + crop_params.width
        /\ crop_params.y <= crop_args.face_y
        /\ crop_args.face_y <= crop_params.y + crop_params.height

\* a face point on the right edge of a wide frame: the crop is clamped and
\* the point lies on the crop's right edge
C26_Witness ==
    /\ crop_params.done /\ FaceInFrame
    /\ crop_args.face_x = crop_args.source_width
    /\ crop_params.width < crop_args.source_width
    /\ crop_params.width > 1
    /\ crop_params.x + crop_params.width = crop_args.face_x
    /\ crop_params.x < CentredLeft

----------------------------------------------------------------------------
(* C27 *)

\* C27: for every source with positive width and height the crop rectangle
\* has a width and a height of at least 1
C27_PositiveCrop ==
    (crop_params.done /\ PositiveSource) =>
        /\ crop_params.width >= 1
        /\ crop_params.height >= 1

----------------------------------------------------------------------------
(* C25 *)

\* C25: every returned clip's duration_seconds equals the difference of its
\* own (re-encoded) end_time and start_time, fractional inputs included
C25_DurationMatchesTimestamps ==
    \A k \in DOMAIN results :
        \A i \in DOMAIN results[k].clips :
            LET c == results[k].clips[i]
            IN  Sec(c.duration_seconds) = EndOf(c) - StartOf(c)

----------------------------------------------------------------------------
(* C28 *)

\* the attempt just recorded has a count above that of every earlier attempt
NewMaximum(cs) == \A j \in 1..(Len(cs) - 1) : cs[Len(cs)] > cs[j]

\* C28: best_clips is always the whole output of one attempt, the earliest
\* one whose count is maximal: an attempt replaces it, by its own output
\* and nothing else, exactly when its count is above every earlier count;
\* an equal or smaller count leaves it alone; and what select_clips
\* returns is that list
C28_EarliestBestAttempt ==
    [][ /\ counts' # counts =>
              /\ counts' = Append(counts, Len(clips'))
              /\ clips' = results'[1].clips
              /\ IF NewMaximum(counts')
                 THEN best_clips' = clips'
                 ELSE best_clips' = best_clips
        /\ counts' = counts => best_clips' = best_clips \/ pc = "idle"
        /\ returned' # returned =>
              returned' = best_clips /\ best_clips' = best_clips
      ]_vars

\* three attempts with one clip each and two different outputs: the first
\* attempt's clip is returned, the last attempt's is not
C28_Witness ==
    /\ pc = "done" /\ ~raised
    /\ counts = <<1, 1, 1>>
    /\ Len(returned) = 1 /\ Len(clips) = 1
    /\ returned[1].title # clips[1].title

----------------------------------------------------------------------------
(* C24 *)

SortedByStart(words) ==
    \A i, j \in DOMAIN words : i <= j => words[i].start <= words[j].start

\* a frame whose time lies in a word
LocatesWord(f) == f.highlighted_index >= 0

\* the indices _get_active_words worked with, read off the returned words
\* (the text of a word is its position in the list, counted from 1)
LocatedIndex(f) == f.active_words[f.highlighted_index + 1].text - 1

WindowStartIndex(f) == f.active_words[1].text - 1

\* C24: with the words sorted by start, of two frames that both locate a
\* word the later one has a located index and a window start index at least
\* those of the earlier one
C24_NeverScrollsBack ==
    SortedByStart(render_args.words) =>
        \A a, b \in DOMAIN rendered :
            (/\ a <= b
             /\ LocatesWord(rendered[a]) /\ LocatesWord(rendered[b])
             /\ rendered[a].active_words # <<>>
             /\ rendered[b].active_words # <<>>) =>
                /\ LocatedIndex(rendered[b]) >= LocatedIndex(rendered[a])
                /\ WindowStartIndex(rendered[b]) >= WindowStartIndex(rendered[a])

\* overlapping words, sorted by start: two frames locate different words
\* and the window has moved forward between them
C24_Witness ==
    /\ render_args.done /\ SortedByStart(render_args.words)
    /\ \E i \in 1..(Len(render_args.words) - 1) :
            render_args.words[i + 1].start < render_args.words[i].end
    /\ \E a, b \in DOMAIN rendered :
            /\ a < b
            /\ LocatesWord(rendered[a]) /\ LocatesWord(rendered[b])
            /\ rendered[a].active_words # <<>> /\ rendered[b].active_words # <<>>
            /\ LocatedIndex(rendered[b]) > LocatedIndex(rendered[a])
            /\ WindowStartIndex(rendered[b]) > WindowStartIndex(rendered[a])
            /\ WindowStartIndex(rendered[a]) > 0

----------------------------------------------------------------------------
(* C23 *)

RECURSIVE Flatten(_)
Flatten(segments) ==
    IF segments = <<>> THEN <<>>
    ELSE Head(segments).words \o Flatten(Tail(segments))

\* the transcript words in transcript order
AllWords == Flatten(rebase_args.segments)

ClipStart == parse_timestamp(rebase_args.clip_info.start_time).v

ClipEnd == parse_timestamp(rebase_args.clip_info.end_time).v

Proper(word) == word.start < word.end

IncludedTexts == { clip_words.words[k].text_roman : k \in DOMAIN clip_words.words }

\* C23: a word with start < end is included exactly when it ends after the
\* clip's start and starts before the clip's end; once re-based it has
\* 0 <= start < end <= clip_duration; the included words keep the
\* transcript order, and a transcript sorted by start gives words sorted by
\* start
C23_Rebase ==
    clip_words.done =>
        /\ \A i \in DOMAIN AllWords :
              Proper(AllWords[i]) =>
                ((AllWords[i].text \in IncludedTexts)
                    <=> (AllWords[i].end > ClipStart /\ AllWords[i].start < ClipEnd))
        /\ \A k \in DOMAIN clip_words.words :
              LET w == clip_words.words[k]
              IN  Proper(AllWords[w.text_roman]) =>
                    /\ 0 <= w.start /\ w.start < w.end
                    /\ w.end <= ClipEnd - ClipStart
        /\ \A j, k \in DOMAIN clip_words.words :
              j < k => clip_words.words[j].text_roman < clip_words.words[k].text_roman
        /\ SortedByStart(AllWords) => SortedByStart(clip_words.words)

\* three sorted words: one that ends where the clip starts (left out), one
\* that begins before the clip and one that ends after it (both clamped)
C23_Witness ==
    /\ clip_words.done
    /\ Len(AllWords) = 3 /\ SortedByStart(AllWords)
    /\ \A i \in DOMAIN AllWords : Proper(AllWords[i])
    /\ AllWords[1].end = ClipStart
    /\ Len(clip_words.words) = 2
    /\ clip_words.words[1].start = 0 /\ AllWords[2].start < ClipStart
    /\ clip_words.words[2].end = clip_words.clip_duration
    /\ AllWords[3].end > ClipEnd

----------------------------------------------------------------------------
(* C29 *)

Listed(list) == { list[k] : k \in DOMAIN list }

\* C29: remove is executed at most once for each connection, no
\* send_progress call ends by an exception, and once a broadcast has ended
\* it has called send_json on every connection that was in the list when it
\* started (here: on every such connection that is still in the list)
C29_BroadcastSafe ==
    /\ \A c \in Conns : remove_calls[c] <= 1
    /\ ~progress_raised
    /\ bpc = "idle" =>
          \A c \in Listed(snapshot) \cap Listed(active_connections) :
              c \in attempted

----------------------------------------------------------------------------
(* C30 *)

\* upload, audio extraction, transcription, selection, and tracking and
\* generation of every selected clip have succeeded
StepsSucceeded ==
    /\ clip_suggestions > 0
    /\ Len(generated_clips) = clip_suggestions
    /\ failed \notin {"upload", "extract", "transcribe", "analyze", "track",
                       "generate"}

\* C30: when all steps up to clip generation have succeeded (and no
\* progress broadcast has raised), process_video answers 200 with
\* success = True and one entry per selected clip
C30_SuccessAfterGeneration ==
    (job_pc = "done" /\ StepsSucceeded /\ ~progress_raised) =>
        /\ http_response.status = 200
        /\ http_response.success
        /\ Len(http_response.clips) = clip_suggestions

====
